---- MODULE Spec2Model ----
(***************************************************************************)
(* Model of src/main.js: the browser client that opens a WebSocket, asks   *)
(* for the microphone, forwards PCM frames, and renders the transcripts.   *)
(*                                                                         *)
(* The JavaScript objects `state` and `elements` are the variables `state` *)
(* and `elements`; `env` is what the host environment holds for the page:  *)
(* every WebSocket's readyState, every media stream and script processor   *)
(* that the page created, the pending setTimeout callbacks, the position   *)
(* of every onConnected() invocation that is suspended at an await, and a  *)
(* log of the ws.send calls, alerts and logged parse errors.                *)
(*                                                                         *)
(* Each handler of main.js is an operator from a world record              *)
(* [state, elements, env] to the world record after the handler returned   *)
(* (microtask continuations included: they run before the next event).     *)
(***************************************************************************)
EXTENDS Integers, Sequences, FiniteSets, TLC

VARIABLES state, elements, env

vars == <<state, elements, env>>

\* ---------------------------------------------------------------- bounds
MaxSockets == 3        \* WebSocket objects created over a run of Spec
MaxFrames == 1         \* audio frames the input device delivers in Spec
MaxMessages == 1       \* inbound frames the channels deliver in Spec
MaxLifeSockets == 2    \* WebSocket objects created over a run of LifecycleSpec
MaxLifeFrames == 2     \* audio frames delivered in LifecycleSpec
MaxSessionSockets == 2 \* WebSocket objects created over a run of SessionSpec
MaxSessionMessages == 1 \* inbound frames delivered in SessionSpec
MaxRender == 4         \* inbound frames delivered in RenderSpec
MaxParseErrors == 1    \* inbound frames that fail to parse, over any run
SampleDen == 48        \* the input samples of ConvertSpec are n / SampleDen
MaxSample == 100       \* with -MaxSample <= n <= MaxSample, and NaN
MaxConvertFrames == 1  \* audio frames delivered in ConvertSpec

Max(a, b) == IF a >= b THEN a ELSE b
Sock == 1..Max(MaxSockets, Max(MaxLifeSockets, MaxSessionSockets))
NoHandle == 0          \* JavaScript null for ws / mediaStream / audioProcessor

\* ------------------------------------------------------------- the world
\* The world a handler starts in. alert() blocks until it is dismissed, so no
\* alert is showing then: env.alert is the alert the latest handler raised.
World ==
  [state |-> state, elements |-> elements,
   env |-> [env EXCEPT !.alert = "none"]]

\* main.js:11-25  const state = {...}
InitState ==
  [ ws |-> NoHandle,
    isConnected |-> FALSE,
    audioContext |-> "null",
    mediaStream |-> NoHandle,
    audioProcessor |-> NoHandle,
    stats |-> [messages |-> 0, finals |-> 0] ]

\* The page as index.html delivers it: the connect overlay is shown, the
\* transcript and the disconnect control are hidden, nothing is disabled.
InitElements ==
  [ connectBtnDisabled |-> FALSE,
    connectOverlayHidden |-> FALSE,
    disconnectContainerHidden |-> TRUE,
    transcriptContainerHidden |-> TRUE,
    transcript |-> << >>,
    statusConnected |-> FALSE,
    statusText |-> "Disconnected",
    micStatus |-> "Inactive",
    emptyStateHidden |-> FALSE,
    configDisabled |-> FALSE,
    currentModel |-> "-" ]

\* A Float32 sample of the input buffer: NaN, or the number num / SampleDen.
\* A float is a rational, and the products the code forms from it need fewer
\* than 53 bits, so the arithmetic below is the code's, without rounding.
NaN == [nan |-> TRUE, num |-> 0]
Samples == {NaN} \cup [nan : {FALSE}, num : -MaxSample..MaxSample]

\* The input buffer of an audio frame: here two samples; silence otherwise.
Blocks == [1..2 -> Samples]
Silence == <<[nan |-> FALSE, num |-> 0], [nan |-> FALSE, num |-> 0]>>

\* The host environment before any handler ran. env.input is the block the
\* input device delivers with every frame, env.pcm the last block sent.
InitEnv ==
  [ readyState |-> [k \in Sock |-> "NONE"],
    closeCode |-> [k \in Sock |-> 0],
    chain |-> [k \in Sock |-> "none"],
    liveTracks |-> {},
    liveProcs |-> {},
    timers |-> {},
    armedBefore |-> {},
    alert |-> "none",
    captured |-> 0,
    sent |-> << >>,
    parseErrors |-> 0,
    input |-> Silence,
    pcm |-> << >> ]

\* ------------------------------------------------------------ UI helpers
\* main.js:427-446
updateConnectionStatus(w, connected, text) ==
  [w EXCEPT !.elements.statusConnected = connected,
            !.elements.statusText = text]

\* main.js:448-460  (active is "true", "false" or a text to show)
updateMicrophoneStatus(w, active) ==
  [w EXCEPT !.elements.micStatus =
     IF active = "true" THEN "Active"
     ELSE IF active = "false" THEN "Inactive"
     ELSE active]

\* main.js:495-497  alert(message): blocks the thread, then returns
showError(w, message) == [w EXCEPT !.env.alert = message]

\* main.js:315-325
resetConnectButton(w) == [w EXCEPT !.elements.connectBtnDisabled = FALSE]

\* ------------------------------------------------------- host environment
\* WebSocket.close(code): a socket that is CONNECTING or OPEN starts its
\* closing handshake, whose close frame carries the code (closeCode is the
\* code in flight); closing a CLOSING or CLOSED socket does nothing.
wsClose(w, k, code) ==
  IF w.env.readyState[k] \in {"CONNECTING", "OPEN"}
  THEN [w EXCEPT !.env.readyState[k] = "CLOSING", !.env.closeCode[k] = code]
  ELSE w

\* Socket k reaches CLOSED: its closing handshake, if any, is over.
wsClosed(w, k) ==
  [w EXCEPT !.env.readyState[k] = "CLOSED", !.env.closeCode[k] = 0]

\* The sockets created so far, and the one `new WebSocket` creates next.
Created(e) == {k \in Sock : e.readyState[k] # "NONE"}
FreshSock(e) == Cardinality(Created(e)) + 1

\* --------------------------------------------------------- disconnect()
\* disconnect() as it would be if it dropped state.mediaStream without
\* stopping its tracks.
disconnectKeepsTracks(w) ==
  LET w1 == IF w.state.ws # NoHandle
            THEN [wsClose(w, w.state.ws, 1000) EXCEPT !.state.ws = NoHandle]
            ELSE w
      w2 == IF w1.state.audioProcessor # NoHandle
            THEN [w1 EXCEPT !.env.liveProcs = @ \ {w1.state.audioProcessor},
                            !.state.audioProcessor = NoHandle]
            ELSE w1
      w3 == [w2 EXCEPT !.state.mediaStream = NoHandle]
      w4 == [w3 EXCEPT !.state.isConnected = FALSE]
      w5 == updateMicrophoneStatus(
              updateConnectionStatus(w4, FALSE, "Disconnected"), "false")
      w6 == [w5 EXCEPT !.elements.currentModel = "-",
                       !.elements.configDisabled = FALSE,
                       !.elements.transcriptContainerHidden = TRUE,
                       !.elements.disconnectContainerHidden = TRUE,
                       !.elements.connectOverlayHidden = FALSE]
  IN resetConnectButton(w6)

\* main.js:278-313
disconnect(w) ==
  LET w1 == IF w.state.ws # NoHandle
            THEN [wsClose(w, w.state.ws, 1000) EXCEPT !.state.ws = NoHandle]
            ELSE w
      w2 == IF w1.state.audioProcessor # NoHandle
            THEN [w1 EXCEPT !.env.liveProcs = @ \ {w1.state.audioProcessor},
                            !.state.audioProcessor = NoHandle]
            ELSE w1
      w3 == IF w2.state.mediaStream # NoHandle
            THEN [w2 EXCEPT !.env.liveTracks = @ \ {w2.state.mediaStream},
                            !.state.mediaStream = NoHandle]
            ELSE w2
      w4 == [w3 EXCEPT !.state.isConnected = FALSE]
      w5 == updateMicrophoneStatus(
              updateConnectionStatus(w4, FALSE, "Disconnected"), "false")
      w6 == [w5 EXCEPT !.elements.currentModel = "-",
                       !.elements.configDisabled = FALSE,
                       !.elements.transcriptContainerHidden = TRUE,
                       !.elements.disconnectContainerHidden = TRUE,
                       !.elements.connectOverlayHidden = FALSE]
  IN resetConnectButton(w6)

\* ------------------------------------------------------------ connect()
\* connect() as it would be if it zeroed state.stats for the new session.
connectResetsStats(w, created) ==
  IF w.state.isConnected THEN w
  ELSE LET w1 == [w EXCEPT !.elements.connectBtnDisabled = TRUE,
                           !.env.armedBefore = w.env.timers,
                           !.state.stats = [messages |-> 0, finals |-> 0]]
           k == FreshSock(w.env)
       IN IF created
          THEN [w1 EXCEPT !.state.ws = k, !.env.readyState[k] = "CONNECTING"]
          ELSE resetConnectButton(showError(w1, "Failed to connect to server"))

\* main.js:124-176.  created = FALSE is `new WebSocket` throwing.
\* env.armedBefore records the pending reset timers that were armed before
\* this call: the timers a connect() has been invoked after.
connect(w, created) ==
  IF w.state.isConnected THEN w
  ELSE LET w1 == [w EXCEPT !.elements.connectBtnDisabled = TRUE,
                           !.env.armedBefore = w.env.timers]
           k == FreshSock(w.env)
       IN IF created
          THEN [w1 EXCEPT !.state.ws = k, !.env.readyState[k] = "CONNECTING"]
          ELSE resetConnectButton(showError(w1, "Failed to connect to server"))

\* ------------------------------------------------ onConnected() and awaits
\* main.js:262-268  the tail of onConnected once both awaits returned
onConnectedDone(w, k) ==
  LET w1 == [w EXCEPT !.elements.connectOverlayHidden = TRUE,
                      !.elements.disconnectContainerHidden = FALSE,
                      !.elements.transcriptContainerHidden = FALSE,
                      !.env.chain[k] = "done"]
  IN updateConnectionStatus(w1, TRUE, "Connected")

\* main.js:270-275  the catch block of onConnected
onConnectedCatch(w, k) ==
  LET w1 == [w EXCEPT !.state.isConnected = FALSE, !.env.chain[k] = "failed"]
      w2 == showError(w1,
              "Failed to access microphone. Please allow microphone access and try again.")
  IN disconnect(w2)

\* main.js:355-372  startMicrophone() up to its await of getUserMedia
startMicrophone(w, k) ==
  IF w.state.mediaStream # NoHandle
  THEN onConnectedDone(w, k)
  ELSE [updateMicrophoneStatus(w, "Requesting...") EXCEPT !.env.chain[k] = "grant"]

\* main.js:381-420  the pipeline, built once an audio context exists
startPipeline(w, k) ==
  LET w1 == [w EXCEPT !.state.audioProcessor = k,
                      !.env.liveProcs = @ \cup {k}]
  IN onConnectedDone(updateMicrophoneStatus(w1, "true"), k)

\* main.js:331-349  initializeAudioContext() up to its await of resume();
\* ctx is what `new AudioContext` does: "throw", "running" or "suspended".
initializeAudioContext(w, ctx) ==
  IF w.state.audioContext # "null" THEN w
  ELSE IF ctx = "throw" THEN showError(w, "Failed to initialize audio system")
  ELSE [w EXCEPT !.state.audioContext = ctx]

\* TRUE when initializeAudioContext(w, ctx) suspends at `await resume()`
AwaitsResume(w, ctx) == w.state.audioContext = "null" /\ ctx = "suspended"

\* main.js:341-348  resume() settled: resolved, or rejected into the catch
resumeSettled(w, ok) ==
  IF ok THEN [w EXCEPT !.state.audioContext = "running"]
  ELSE showError(w, "Failed to initialize audio system")

\* main.js:240-260  onConnected() from its first line to its first suspension
onConnected(w, k, ctx) ==
  LET w1 == [w EXCEPT !.state.isConnected = TRUE]
      w2 == updateConnectionStatus(w1, FALSE, "Requesting microphone...")
      w3 == [w2 EXCEPT !.elements.currentModel = "model",
                       !.elements.configDisabled = TRUE]
      w4 == initializeAudioContext(w3, ctx)
  IN IF AwaitsResume(w3, ctx)
     THEN [w4 EXCEPT !.env.chain[k] = "resume1"]
     ELSE startMicrophone(w4, k)

\* main.js:365-381  getUserMedia resolved with a stream
micGranted(w, k, ctx) ==
  LET w1 == [w EXCEPT !.state.mediaStream = k, !.env.liveTracks = @ \cup {k}]
      w2 == initializeAudioContext(w1, ctx)
  IN IF AwaitsResume(w1, ctx) THEN [w2 EXCEPT !.env.chain[k] = "resume2"]
     ELSE IF w2.state.audioContext = "null" THEN onConnectedCatch(w2, k)
     ELSE startPipeline(w2, k)

\* ----------------------------------------------------- channel handlers
\* main.js:214-217
handleWebSocketError(w) == updateConnectionStatus(w, FALSE, "Error")

\* main.js:219-234  the close event of socket k (the timer it arms is
\* resetTimer below; env.timers names the sockets whose timer is pending)
handleWebSocketClose(w, k) ==
  LET w1 == [w EXCEPT !.state.isConnected = FALSE]
      w2 == updateMicrophoneStatus(
              updateConnectionStatus(w1, FALSE, "Disconnected"), "false")
  IN [w2 EXCEPT !.env.timers = @ \cup {k}]

\* main.js:226-233  the setTimeout callback armed by the close of socket k
resetTimer(w, k) ==
  LET w1 == [w EXCEPT !.env.timers = @ \ {k}, !.env.armedBefore = @ \ {k}]
  IN IF ~w1.state.isConnected
     THEN resetConnectButton(
            [w1 EXCEPT !.elements.transcriptContainerHidden = TRUE,
                       !.elements.disconnectContainerHidden = TRUE,
                       !.elements.connectOverlayHidden = FALSE])
     ELSE w1

\* ------------------------------------------------------ sample conversion
\* Math.max(-1, Math.min(1, x)) without its clamping.
clampNothing(x) == x

\* main.js:392  Math.max(-1, Math.min(1, x)); both return NaN for a NaN
clamp(x) ==
  IF x.nan THEN x
  ELSE IF x.num > SampleDen THEN [x EXCEPT !.num = SampleDen]
  ELSE IF x.num < -SampleDen THEN [x EXCEPT !.num = -SampleDen]
  ELSE x

\* main.js:393  s < 0 ? s * 0x8000 : s * 0x7FFF  (NaN < 0 is false, and
\* NaN * 0x7FFF is NaN); the product is again a multiple of 1 / SampleDen
scaled(x) ==
  IF x.nan THEN x
  ELSE IF x.num < 0 THEN [x EXCEPT !.num = x.num * 32768]
  ELSE [x EXCEPT !.num = x.num * 32767]

\* main.js:393  the store into an Int16Array element: NaN becomes 0, any
\* other number is truncated toward zero and wrapped into 16 bits
ToInt16(x) ==
  IF x.nan THEN 0
  ELSE LET t == IF x.num >= 0 THEN x.num \div SampleDen
                ELSE -((-x.num) \div SampleDen)
       IN ((t + 32768) % 65536) - 32768

\* main.js:390-394  the loop that fills pcm16 from inputData
float32ToInt16(inputData) ==
  [i \in DOMAIN inputData |-> ToInt16(scaled(clamp(inputData[i])))]

\* main.js:385-411  onaudioprocess for the frame numbered n
onaudioprocess(w, n) ==
  LET w1 == [w EXCEPT !.env.captured = n]
      pcm16 == float32ToInt16(w.env.input)
  IN IF ~w1.state.isConnected THEN w1
     ELSE IF w1.state.ws # NoHandle /\ w1.env.readyState[w1.state.ws] = "OPEN"
          THEN [w1 EXCEPT !.env.sent = Append(@, n), !.env.pcm = pcm16]
          ELSE w1

\* ------------------------------------------------------ inbound frames
\* An inbound frame as the handler reads it: whether JSON.parse accepts it,
\* data.type, data.channel.alternatives[0].transcript ("none": no channel
\* member), data.transcript ("none": absent), data.is_final,
\* data.speech_final and whether data.error is set.
Texts == {"hello", "hello world"}

Malformed ==
  [parses |-> FALSE, type |-> "none", channel |-> "none", transcript |-> "none",
   is_final |-> FALSE, speech_final |-> FALSE, error |-> FALSE]

ResultFrames ==
  [parses : {TRUE}, type : {"Results", "none"},
   channel : {"none", ""} \cup Texts, transcript : {"none", "hello"},
   is_final : BOOLEAN, speech_final : BOOLEAN, error : {FALSE}]

OtherFrames ==
  { [parses |-> TRUE, type |-> "Metadata", channel |-> "none",
     transcript |-> "none", is_final |-> FALSE, speech_final |-> FALSE,
     error |-> FALSE],
    [parses |-> TRUE, type |-> "none", channel |-> "none",
     transcript |-> "none", is_final |-> FALSE, speech_final |-> FALSE,
     error |-> TRUE] }

Frames == {Malformed} \cup ResultFrames \cup OtherFrames

\* The frames Spec delivers: one malformed, one interim and one final
\* result in the documented shape, one Metadata and one Error frame.
SessionFrames ==
  {Malformed} \cup OtherFrames \cup
  {f \in ResultFrames : /\ f.type = "Results" /\ f.channel = "hello"
                        /\ f.transcript = "none" /\ ~f.speech_final}

\* addTranscriptItem as it would be if a final result, too, replaced an
\* interim last entry.
addTranscriptItemReplacesAny(w, text, isFinal) ==
  LET item == [text |-> text, final |-> isFinal]
      items == w.elements.transcript
      w1 == [w EXCEPT !.elements.emptyStateHidden = TRUE]
  IN IF Len(items) > 0 /\ ~items[Len(items)].final
     THEN [w1 EXCEPT !.elements.transcript = [@ EXCEPT ![Len(items)] = item]]
     ELSE [w1 EXCEPT !.elements.transcript = Append(@, item)]

\* main.js:462-493  (an entry is its text and whether it is final)
addTranscriptItem(w, text, isFinal) ==
  LET item == [text |-> text, final |-> isFinal]
      items == w.elements.transcript
      w1 == [w EXCEPT !.elements.emptyStateHidden = TRUE]
  IN IF ~isFinal /\ Len(items) > 0 /\ ~items[Len(items)].final
     THEN [w1 EXCEPT !.elements.transcript = [@ EXCEPT ![Len(items)] = item]]
     ELSE [w1 EXCEPT !.elements.transcript = Append(@, item)]

\* main.js:193  data.channel?.alternatives?.[0]?.transcript || data.transcript || ''
TranscriptOf(f) ==
  IF f.channel \notin {"none", ""} THEN f.channel
  ELSE IF f.transcript \notin {"none", ""} THEN f.transcript
  ELSE ""

\* handleWebSocketMessage as it would be if it counted a final result
\* whether or not it carries a transcript.
handleWebSocketMessageCountsEmptyFinals(w, f) ==
  IF ~f.parses THEN [w EXCEPT !.env.parseErrors = @ + 1]
  ELSE LET w1 == [w EXCEPT !.state.stats.messages = @ + 1]
           transcript == TranscriptOf(f)
           isFinal == f.is_final \/ f.speech_final
       IN IF f.type = "Results" \/ f.channel # "none"
          THEN LET w2 == IF transcript # ""
                         THEN addTranscriptItem(w1, transcript, isFinal)
                         ELSE w1
               IN IF isFinal
                  THEN [w2 EXCEPT !.state.stats.finals = @ + 1]
                  ELSE w2
          ELSE w1

\* handleWebSocketMessage as it would be if it counted the frame before
\* parsing it.
handleWebSocketMessageCountsFirst(w, f) ==
  LET w1 == [w EXCEPT !.state.stats.messages = @ + 1]
      transcript == TranscriptOf(f)
      isFinal == f.is_final \/ f.speech_final
  IN IF ~f.parses THEN [w1 EXCEPT !.env.parseErrors = @ + 1]
     ELSE IF f.type = "Results" \/ f.channel # "none"
          THEN IF transcript # ""
               THEN LET w2 == addTranscriptItem(w1, transcript, isFinal)
                    IN IF isFinal
                       THEN [w2 EXCEPT !.state.stats.finals = @ + 1]
                       ELSE w2
               ELSE w1
          ELSE w1

\* main.js:183-212  (env.parseErrors counts the console.error calls of the
\* catch block, main.js:209-211)
handleWebSocketMessage(w, f) ==
  IF ~f.parses THEN [w EXCEPT !.env.parseErrors = @ + 1]
  ELSE LET w1 == [w EXCEPT !.state.stats.messages = @ + 1]
           transcript == TranscriptOf(f)
           isFinal == f.is_final \/ f.speech_final
       IN IF f.type = "Results" \/ f.channel # "none"
          THEN IF transcript # ""
               THEN LET w2 == addTranscriptItem(w1, transcript, isFinal)
                    IN IF isFinal
                       THEN [w2 EXCEPT !.state.stats.finals = @ + 1]
                       ELSE w2
               ELSE w1
          ELSE w1

\* ---------------------------------------------------------------- actions
Install(w) ==
  /\ state' = w.state
  /\ elements' = w.elements
  /\ env' = w.env

Init ==
  /\ state = InitState
  /\ elements = InitElements
  /\ env = InitEnv

CtxOutcomes == {"throw", "running", "suspended"}

\* main.js:71  a click on the connect button (it is shown and enabled);
\* at most maxSock sockets are created over a run
Connect(maxSock) ==
  /\ ~elements.connectBtnDisabled
  /\ ~elements.connectOverlayHidden
  /\ \E created \in BOOLEAN :
       /\ created /\ ~state.isConnected => FreshSock(env) <= maxSock
       /\ Install(connect(World, created))

\* main.js:72  a click on the disconnect button (its container is shown)
DisconnectClick ==
  /\ ~elements.disconnectContainerHidden
  /\ Install(disconnect(World))

\* main.js:75-77  beforeunload on a page that then stays loaded (the
\* navigation that raised it is abandoned, as for a download link)
BeforeUnload == Install(disconnect(World))

\* main.js:178-181  the open event of socket k
SocketOpen(k) ==
  /\ env.readyState[k] = "CONNECTING"
  /\ \E ctx \in CtxOutcomes :
       Install(onConnected([World EXCEPT !.env.readyState[k] = "OPEN"], k, ctx))

\* main.js:168  the close event of socket k: the remote closed it, or the
\* closing handshake that close() started has finished
SocketClose(k) ==
  /\ env.readyState[k] \in {"OPEN", "CLOSING"}
  /\ Install(handleWebSocketClose(wsClosed(World, k), k))

\* main.js:168-169  the connection of socket k failed: the error event and
\* the close event are dispatched by one task
SocketFail(k) ==
  /\ env.readyState[k] \in {"CONNECTING", "OPEN", "CLOSING"}
  /\ Install(handleWebSocketClose(
       handleWebSocketError(wsClosed(World, k)), k))

\* main.js:167  a frame of `frames` arrives on the open socket k; at most
\* maxMsg frames that parse and MaxParseErrors that do not are delivered
\* over a run
SocketMessage(k, frames, maxMsg) ==
  /\ env.readyState[k] = "OPEN"
  /\ state.stats.messages < maxMsg
  /\ \E f \in frames :
       /\ f.parses \/ env.parseErrors < MaxParseErrors
       /\ Install(handleWebSocketMessage(World, f))

\* main.js:341  audioContext.resume() settles for the chain of socket k
ResumeSettled(k) ==
  /\ env.chain[k] \in {"resume1", "resume2"}
  /\ \E ok \in BOOLEAN :
       LET w1 == resumeSettled(World, ok)
       IN Install(IF env.chain[k] = "resume1"
                  THEN startMicrophone(w1, k)
                  ELSE startPipeline(w1, k))

\* main.js:365  getUserMedia resolves for the chain of socket k
MicGranted(k) ==
  /\ env.chain[k] = "grant"
  /\ \E ctx \in CtxOutcomes : Install(micGranted(World, k, ctx))

\* main.js:365  getUserMedia rejects for the chain of socket k
MicDenied(k) ==
  /\ env.chain[k] = "grant"
  /\ Install(onConnectedCatch(World, k))

\* main.js:226  the reset timer armed by the close of socket k fires
TimerFire(k) ==
  /\ k \in env.timers
  /\ Install(resetTimer(World, k))

\* main.js:385  the connected processor p is handed the next frame; at most
\* maxFrames frames are delivered over a run
AudioProcess(p, maxFrames) ==
  /\ p \in env.liveProcs
  /\ state.audioContext = "running"
  /\ env.captured < maxFrames
  /\ Install(onaudioprocess(World, env.captured + 1))

\* The connection handlers of a page driven through its two controls.
ConnectionStep(maxSock) ==
  \/ Connect(maxSock)
  \/ DisconnectClick
  \/ \E k \in Sock : SocketOpen(k)
  \/ \E k \in Sock : SocketClose(k)
  \/ \E k \in Sock : SocketFail(k)
  \/ \E k \in Sock : ResumeSettled(k)
  \/ \E k \in Sock : MicGranted(k)
  \/ \E k \in Sock : MicDenied(k)
  \/ \E k \in Sock : TimerFire(k)

\* The page while it stays loaded: its controls, its channels, the input
\* device and the reset timers.
Next ==
  \/ ConnectionStep(MaxSockets)
  \/ \E p \in Sock : AudioProcess(p, MaxFrames)
  \/ \E k \in Sock : SocketMessage(k, SessionFrames, MaxMessages)

Spec == Init /\ [][Next]_vars

\* The connection handlers alone, over fewer sockets and more audio frames,
\* with disconnect() also invoked by beforeunload at any moment.
\* handleWebSocketMessage reads and writes only state.stats and the
\* transcript entries, which no connection handler reads.
LifecycleNext ==
  \/ ConnectionStep(MaxLifeSockets)
  \/ \E p \in Sock : AudioProcess(p, MaxLifeFrames)
  \/ BeforeUnload

LifecycleSpec == Init /\ [][LifecycleNext]_vars

\* Sessions and their inbound frames, without the audio frames: onaudioprocess
\* writes only the log of sends, which no other handler reads.
SessionNext ==
  \/ ConnectionStep(MaxSessionSockets)
  \/ \E k \in Sock : SocketMessage(k, SessionFrames, MaxSessionMessages)

SessionSpec == Init /\ [][SessionNext]_vars

\* The renderer alone: one session that has reached streaming (connect, open,
\* grant, in that order) and then receives up to MaxRender frames.
StreamingWorld ==
  LET w0 == [state |-> InitState, elements |-> InitElements, env |-> InitEnv]
      w1 == connect(w0, TRUE)
      w2 == onConnected([w1 EXCEPT !.env.readyState[1] = "OPEN"], 1, "running")
  IN micGranted(w2, 1, "running")

RenderInit ==
  /\ state = StreamingWorld.state
  /\ elements = StreamingWorld.elements
  /\ env = StreamingWorld.env

RenderNext == SocketMessage(1, Frames, MaxRender)

RenderSpec == RenderInit /\ [][RenderNext]_vars

\* The sample conversion alone: one session that has reached streaming, whose
\* input device delivers some block of samples with every frame.
ConvertInit ==
  /\ state = StreamingWorld.state
  /\ elements = StreamingWorld.elements
  /\ \E block \in Blocks : env = [StreamingWorld.env EXCEPT !.input = block]

ConvertNext == AudioProcess(1, MaxConvertFrames)

ConvertSpec == ConvertInit /\ [][ConvertNext]_vars

\* ------------------------------------------------- connection lifecycle
\* The lifecycle state of spec section 4.4, read off the current channel
\* state.ws and the onConnected() invocation its open event started.
Pending == {"resume1", "grant", "resume2"}

Phase ==
  IF state.ws = NoHandle THEN "Idle"
  ELSE CASE env.readyState[state.ws] = "CONNECTING" -> "ChannelConnecting"
         [] env.readyState[state.ws] = "OPEN" /\ env.chain[state.ws] = "done"
              -> "Streaming"
         [] env.readyState[state.ws] = "OPEN" -> "AcquiringInput"
         [] env.readyState[state.ws] = "CLOSED" /\ state.ws \in env.timers
              -> "Closing"
         [] OTHER -> "Idle"

\* The channels that are connecting or open.
Channels == {k \in Sock : env.readyState[k] \in {"CONNECTING", "OPEN"}}

\* No channel, input track or processing node is held or left running.
Released ==
  /\ state.ws = NoHandle
  /\ state.mediaStream = NoHandle
  /\ state.audioProcessor = NoHandle
  /\ Channels = {}
  /\ env.liveTracks = {}
  /\ env.liveProcs = {}

MicError ==
  "Failed to access microphone. Please allow microphone access and try again."

\* ----------------------------------------------------------------- claims

\* C1: an audio frame is sent on the channel only while the lifecycle is
\* Streaming: every step that adds a ws.send call starts in Streaming.
C1_SendOnlyWhileStreaming ==
  [][Len(env'.sent) > Len(env.sent) => Phase = "Streaming"]_vars

\* C2: at most one channel (connecting or open) and at most one input handle
\* (live media stream, connected processing node) exist at a time.
C2_AtMostOneHandle ==
  /\ Cardinality(Channels) <= 1
  /\ Cardinality(env.liveTracks) <= 1
  /\ Cardinality(env.liveProcs) <= 1

\* C3: disconnect() is safe during a pending asynchronous step: once
\* disconnect() has dropped the channel and no step of any connect chain is
\* pending any more, every handle is released and the lifecycle is Idle.
C3_DisconnectLeavesNothing ==
  (state.ws = NoHandle /\ \A k \in Sock : env.chain[k] \notin Pending)
    => (Released /\ ~state.isConnected /\ Phase = "Idle")

\* C4: connect() is a no-op whenever the lifecycle is not Idle: a click on
\* the connect control in any other state changes nothing.
C4_ConnectNoOpUnlessIdle ==
  (Phase # "Idle" /\ ~elements.connectBtnDisabled /\ ~elements.connectOverlayHidden)
    => connect(World, TRUE) = World

\* C5: a remote close while Streaming is treated as a disconnect: when the
\* grace timer of the closed current channel fires (the pipeline was running
\* when the close event came, and nothing has happened to the status since),
\* the teardown of disconnect() has happened and the lifecycle is Idle.
C5_RemoteCloseTearsDown ==
  [][(/\ state.ws # NoHandle
      /\ state.ws \in env.timers
      /\ state.ws \notin env'.timers
      /\ env.chain[state.ws] = "done"
      /\ state.audioProcessor = state.ws
      /\ elements.statusText = "Disconnected")
     => (Released /\ Phase = "Idle")']_vars

\* C6: a connect() call made between a close event and the firing of the
\* reset timer it armed cancels the reset: that timer neither returns the UI
\* to the pre-connect state nor re-enables the connect control.
C6_ConnectCancelsReset ==
  [][\A k \in Sock :
       (k \in env.armedBefore /\ k \notin env'.timers)
         => /\ elements'.connectBtnDisabled = elements.connectBtnDisabled
            /\ elements'.connectOverlayHidden = elements.connectOverlayHidden
            /\ elements'.transcriptContainerHidden = elements.transcriptContainerHidden
            /\ elements'.disconnectContainerHidden = elements.disconnectContainerHidden]_vars

C8_ReplaceOnlyInterim ==
  [][LET old == elements.transcript
         new == elements'.transcript
         n == Len(old)
         lastInterim == n > 0 /\ ~old[n].final
     IN /\ state'.stats.finals # state.stats.finals
             => /\ Len(new) = n + 1
                /\ SubSeq(new, 1, n) = old
                /\ new[n + 1].final
                /\ state'.stats.finals = state.stats.finals + 1
        /\ (state'.stats.finals = state.stats.finals /\ new # old)
             => IF lastInterim
                THEN /\ Len(new) = n
                     /\ SubSeq(new, 1, n - 1) = SubSeq(old, 1, n - 1)
                     /\ ~new[n].final
                ELSE /\ Len(new) = n + 1
                     /\ SubSeq(new, 1, n) = old
                     /\ ~new[n + 1].final]_vars

\* C8 witness: a final, then an interim appended after it, then a final
\* appended after the interim, three frames in all.
C8_Witness ==
  /\ state.stats.messages = 3
  /\ Len(elements.transcript) = 3
  /\ elements.transcript[1].final
  /\ ~elements.transcript[2].final
  /\ elements.transcript[3].final

\* C9: an interim entry is never retained once superseded: the transcript
\* holds at most one interim entry, and only as its last entry.
C9_InterimOnlyAtTail ==
  \A i \in 1..(Len(elements.transcript) - 1) : elements.transcript[i].final

\* C10: when the channel has opened and input acquisition fails, the
\* lifecycle returns to Idle with that channel closed, no input handle or
\* processing node held, the connected flag false, and the
\* microphone-permission error shown.
C10_DeniedTearsDown ==
  [][\A k \in Sock :
       (env.chain[k] \in Pending /\ env'.chain[k] = "failed")
         => (/\ Phase = "Idle"
             /\ env.readyState[k] \in {"CLOSING", "CLOSED"}
             /\ state.ws = NoHandle
             /\ state.mediaStream = NoHandle
             /\ state.audioProcessor = NoHandle
             /\ ~state.isConnected
             /\ env.alert = MicError)']_vars

\* C11: an attempt started from Idle passes through ChannelConnecting,
\* AcquiringInput and Streaming in that order: each of the three is entered
\* only from the one before it, the connected flag is set when AcquiringInput
\* is entered, and the status does not show "Connected" before Streaming.
C11_AttemptSequence ==
  [][/\ (Phase' = "ChannelConnecting" /\ Phase # "ChannelConnecting")
          => Phase = "Idle"
     /\ (Phase' = "AcquiringInput" /\ Phase # "AcquiringInput")
          => (Phase = "ChannelConnecting" /\ state'.isConnected)
     /\ (Phase' = "Streaming" /\ Phase # "Streaming")
          => Phase = "AcquiringInput"
     /\ (Phase' \in {"ChannelConnecting", "AcquiringInput"})
          => elements'.statusText # "Connected"]_vars

\* C12: disconnect() invoked in a non-Idle state closes the current channel
\* with code 1000 (a channel that is already closed stays closed),
\* disconnects the processing node and stops the tracks of the input stream
\* that the state holds, clears the connected flag and leaves the lifecycle
\* Idle with no channel, input or processing handle in the state.
C12_DisconnectReleases ==
  [][(Phase # "Idle" /\ state'.ws = NoHandle)
       => /\ env.readyState[state.ws] \in {"CONNECTING", "OPEN"}
               => /\ env'.readyState[state.ws] = "CLOSING"
                  /\ env'.closeCode[state.ws] = 1000
          /\ env'.readyState[state.ws] \in {"CLOSING", "CLOSED"}
          /\ state.audioProcessor \notin env'.liveProcs
          /\ state.mediaStream \notin env'.liveTracks
          /\ state'.mediaStream = NoHandle
          /\ state'.audioProcessor = NoHandle
          /\ ~state'.isConnected
          /\ Phase' = "Idle"]_vars

\* C12 witness: disconnect() has acted on a streaming session: its channel
\* is closing with code 1000 and its stream and node are released.
C12_Witness ==
  \E k \in Sock :
    /\ env.chain[k] = "done"
    /\ env.readyState[k] = "CLOSING"
    /\ env.closeCode[k] = 1000
    /\ state.ws = NoHandle
    /\ k \notin env.liveTracks
    /\ k \notin env.liveProcs

\* C13: disconnect() is idempotent: invoked while the lifecycle is Idle it
\* changes neither the input and processing handles, the connected flag, the
\* counters, the displayed status and controls nor anything in the host
\* environment (state.ws is then null or a closed socket: no channel either
\* way), and a second disconnect() changes nothing that the first left.
C13_DisconnectIdempotent ==
  /\ Phase = "Idle"
       => LET w == disconnect(World)
          IN /\ w.state.mediaStream = state.mediaStream
             /\ w.state.audioProcessor = state.audioProcessor
             /\ w.state.isConnected = state.isConnected
             /\ w.state.stats = state.stats
             /\ w.elements = elements
             /\ w.env = World.env
  /\ disconnect(disconnect(World)) = disconnect(World)

\* C14: every audio frame the input device delivers while the lifecycle is
\* Streaming is sent on the channel, once and at once (the log of sends
\* grows by exactly that frame), so the sends are in capture order.
C14_EveryFrameSentInOrder ==
  [][/\ (Phase = "Streaming" /\ env'.captured # env.captured)
          => env'.sent = Append(env.sent, env'.captured)
     /\ \A i, j \in 1..Len(env'.sent) : i < j => env'.sent[i] < env'.sent[j]]_vars

\* C15: when the channel never opens, the failure is surfaced to the user
\* (an alert, or at least an error status) and no input acquisition or
\* capture pipeline is started: so for the current channel going from
\* CONNECTING to CLOSED, and so for a connect() whose `new WebSocket` throws,
\* which also leaves the connect control usable.
C15_NeverOpenedSurfaced ==
  [][/\ \A k \in Sock :
          (k = state.ws /\ env.readyState[k] = "CONNECTING"
             /\ env'.readyState[k] = "CLOSED")
            => /\ env'.alert # "none" \/ elements'.statusText = "Error"
               /\ env'.chain[k] = "none"
               /\ env'.liveTracks = env.liveTracks
               /\ env'.liveProcs = env.liveProcs
     /\ ~state.isConnected
          => LET w == connect(World, FALSE)
             IN /\ w.env.alert = "Failed to connect to server"
                /\ ~w.elements.connectBtnDisabled
                /\ w.state = state]_vars

\* C16: a frame that does not parse as JSON is dropped with no state change:
\* the step that logs a parse error leaves the counters, the transcript, the
\* connected flag, the handles and the page as they were, and the frames that
\* arrive after it are still counted.
C16_MalformedDropped ==
  [][/\ env'.parseErrors # env.parseErrors
          => /\ state' = state
             /\ elements' = elements
             /\ env' = [World.env EXCEPT !.parseErrors = @ + 1]
     /\ env.parseErrors > 0
          => \A f \in ResultFrames \cup OtherFrames :
               handleWebSocketMessage(World, f).state.stats.messages
                 = state.stats.messages + 1]_vars

\* C16 witness: a frame failed to parse, frames were rendered, and the last
\* of them arrived when the parse error had been logged.
C16_Witness ==
  /\ env.parseErrors = 1
  /\ state.stats.messages = 2
  /\ Len(elements.transcript) = 2

\* C17: a result frame of either shape (a channel member, with or without
\* type "Results", or a bare transcript member) that carries a non-empty
\* transcript produces exactly one transcript operation, with that text and
\* final iff is_final or speech_final; Metadata and Error frames leave the
\* transcript as it is.
C17_OneOperationPerResult ==
  /\ \A f \in ResultFrames :
       TranscriptOf(f) # ""
         => handleWebSocketMessage(World, f).elements.transcript
              = addTranscriptItem(World, TranscriptOf(f),
                                  f.is_final \/ f.speech_final).elements.transcript
  /\ \A f \in OtherFrames :
       handleWebSocketMessage(World, f).elements.transcript = elements.transcript

\* C18: settings can be changed before starting transcription: whenever the
\* connect control is offered (the overlay is shown and the button enabled),
\* the model and language controls are enabled.
C18_SettingsEnabledWhenOffered ==
  (~elements.connectOverlayHidden /\ ~elements.connectBtnDisabled)
    => ~elements.configDisabled

\* The sample x clamped to [-1, 1] and scaled by 32767 if it is not negative
\* and by 32768 if it is, as a multiple of 1 / SampleDen: the reference of
\* spec section 4.1 before rounding.
Reference(x) ==
  LET c == IF x.num > SampleDen THEN SampleDen
           ELSE IF x.num < -SampleDen THEN -SampleDen ELSE x.num
  IN IF c >= 0 THEN c * 32767 ELSE c * 32768

\* C19: every converted sample lies in [-32768, 32767]; the conversion is
\* non-decreasing (of two samples of a block, the smaller never gets the
\* larger output); a sample outside [-1, 1] is converted as 1 or -1 is; and
\* NaN gives 0.
C19_RangeMonotoneClamped ==
  env.pcm # << >> =>
    /\ \A i \in DOMAIN env.pcm : env.pcm[i] \in -32768..32767
    /\ \A i, j \in DOMAIN env.pcm :
         (~env.input[i].nan /\ ~env.input[j].nan
            /\ env.input[i].num <= env.input[j].num)
           => env.pcm[i] <= env.pcm[j]
    /\ \A i, j \in DOMAIN env.pcm :
         (~env.input[i].nan /\ ~env.input[j].nan /\
            \/ env.input[i].num > SampleDen /\ env.input[j].num = SampleDen
            \/ env.input[i].num < -SampleDen /\ env.input[j].num = -SampleDen)
           => env.pcm[i] = env.pcm[j]
    /\ \A i \in DOMAIN env.pcm : env.input[i].nan => env.pcm[i] = 0

\* C19 witness: a block holding 2.0 and a negative sample that is not a
\* multiple of 1/32768 has been converted and sent.
C19_Witness ==
  /\ env.pcm # << >>
  /\ env.input[1] = [nan |-> FALSE, num |-> 2 * SampleDen]
  /\ env.pcm[1] = 32767
  /\ env.input[2] = [nan |-> FALSE, num |-> -1]
  /\ env.pcm[2] > -32768 /\ env.pcm[2] < 0

\* C20: every converted sample is the reference value rounded to the
\* nearest integer (either neighbour when the value lies half-way).
C20_RoundToNearest ==
  env.pcm # << >> =>
    \A i \in DOMAIN env.pcm :
      ~env.input[i].nan =>
        LET d == Reference(env.input[i]) - env.pcm[i] * SampleDen
        IN 2 * d <= SampleDen /\ 2 * d >= -SampleDen

\* C21: the close event of a channel that is no longer the current one
\* (disconnect() closed it, or a later connect() replaced it) does not
\* affect a newer channel that is connecting or open: it neither clears the
\* connected flag, nor changes the displayed status, nor arms a reset timer.
C21_StaleCloseIgnored ==
  [][\A k \in Sock :
       (/\ env.readyState[k] # "CLOSED"
        /\ env'.readyState[k] = "CLOSED"
        /\ k # state.ws
        /\ state.ws # NoHandle
        /\ env.readyState[state.ws] \in {"CONNECTING", "OPEN"})
         => /\ state'.isConnected = state.isConnected
            /\ elements'.statusText = elements.statusText
            /\ elements'.statusConnected = elements.statusConnected
            /\ env'.timers = env.timers]_vars

\* C22: the status shows "Connected" only if the connected flag is set and
\* the current channel is open (the transcript and the disconnect control
\* are revealed by the step that writes that status): a grant that resolves
\* after the channel closed or after disconnect() does not mark the session
\* as connected.
C22_ConnectedMeansOpen ==
  (elements.statusText = "Connected" \/ elements.statusConnected)
    => /\ state.isConnected
       /\ state.ws # NoHandle
       /\ env.readyState[state.ws] = "OPEN"

\* The number of final entries in the transcript.
FinalEntries ==
  Cardinality({i \in 1..Len(elements.transcript) : elements.transcript[i].final})

\* C23: the final-results counter equals the number of final entries in the
\* transcript and never exceeds the frames-received counter, and a result
\* frame with an empty transcript increments the frames-received counter
\* and nothing else.
C23_FinalsMatchTranscript ==
  /\ state.stats.finals = FinalEntries
  /\ state.stats.finals <= state.stats.messages
  /\ \A f \in ResultFrames :
       TranscriptOf(f) = ""
         => handleWebSocketMessage(World, f)
              = [World EXCEPT !.state.stats.messages = @ + 1]

\* C23 witness: four frames were received, two of them final results that
\* were rendered and two that left the transcript alone.
C23_Witness ==
  /\ state.stats.messages = 4
  /\ state.stats.finals = 2
  /\ Len(elements.transcript) = 2
  /\ FinalEntries = 2

====
